---- MODULE Spec2Model ----
(***************************************************************************)
(* Model of scripts/extract-baseline.py: a command-line run loads a        *)
(* workbook, dispatches on --scenario, merges the extracted record into    *)
(* the baseline JSON file and writes the file back.                        *)
(*                                                                         *)
(* JSON values are records [t, items, s, n]: t is the JSON type, items the *)
(* ordered members of an object or list (Python dicts keep insertion       *)
(* order, and the order decides the bytes json.dump writes), s a string as *)
(* its sequence of words, n a number.  A file is [fmt, doc, len]: fmt is   *)
(* how the bytes are laid out, doc the value they parse to, len their      *)
(* length in units of one JSON node.                                       *)
(***************************************************************************)
EXTENDS Integers, Sequences, FiniteSets, TLC

VARIABLES fs, pc, args, wb, extracted, baseline, out, err, exit,
          fsAtStart, prev, edited

vars == <<fs, pc, args, wb, extracted, baseline, out, err, exit,
          fsAtStart, prev, edited>>

\* Largest number of scenario entries in the output file before the first run.
MaxSiblings == 2

\* Largest number of edits other programs make to the output file.
MaxEdits == 1

\* The invocations that may run at the same time.
Procs == {1, 2}

-----------------------------------------------------------------------------
\* JSON values

JNull == [t |-> "null", items |-> <<>>, s |-> <<>>, n |-> 0]

JNum(n) == [t |-> "num", items |-> <<>>, s |-> <<>>, n |-> n]

JStr(words) == [t |-> "str", items |-> <<>>, s |-> words, n |-> 0]

JObj(pairs) == [t |-> "obj", items |-> pairs, s |-> <<>>, n |-> 0]

JList(pairs) == [t |-> "list", items |-> pairs, s |-> <<>>, n |-> 0]

\* A member of an object (k its key) or an element of a list (k = "").
Pair(k, v) == [k |-> k, val |-> v]

Elem(v) == Pair("", v)

Keys(o) == {o.items[i].k : i \in 1..Len(o.items)}

HasKey(o, k) == o.t = "obj" /\ k \in Keys(o)

\* o[k]
GetItem(o, k) == o.items[CHOOSE i \in 1..Len(o.items) : o.items[i].k = k].val

\* o[k] = v on a dict: an existing key keeps its place, a new key goes last.
SetItem(o, k, v) ==
    IF k \in Keys(o)
    THEN [o EXCEPT !.items = [i \in 1..Len(o.items) |->
                                 IF o.items[i].k = k THEN Pair(k, v) ELSE o.items[i]]]
    ELSE [o EXCEPT !.items = Append(o.items, Pair(k, v))]

RECURSIVE SumSizes(_, _)
RECURSIVE JSize(_)
\* The number of nodes of a value: the model's measure of the bytes it takes.
JSize(v) == 1 + SumSizes(v.items, Len(v.items))

SumSizes(items, i) == IF i = 0 THEN 0 ELSE JSize(items[i].val) + SumSizes(items, i - 1)

RECURSIVE AllLeavesNull(_)
\* Every leaf below v is null (v is a null, or an object of such values).
AllLeavesNull(v) ==
    \/ v.t = "null"
    \/ /\ v.t = "obj"
       /\ \A i \in 1..Len(v.items) : AllLeavesNull(v.items[i].val)

-----------------------------------------------------------------------------
\* Files

Absent == [fmt |-> "absent", doc |-> JNull, len |-> 0]

Empty == [fmt |-> "empty", doc |-> JNull, len |-> 0]

\* Bytes that are no JSON text.
Garbage(len) == [fmt |-> "garbage", doc |-> JNull, len |-> len]

\* A JSON text of doc laid out as fmt ("compact" or "indent2").
Text(fmt, doc) ==
    [fmt |-> fmt, doc |-> doc, len |-> JSize(doc) * (IF fmt = "indent2" THEN 2 ELSE 1)]

Exists(f) == f.fmt # "absent"

\* json.load succeeds on f
Parses(f) == f.fmt \in {"compact", "indent2"}

\* json.dump(doc, f, indent=2): the bytes written
Dumped(doc) == Text("indent2", doc)

\* The mutant of Overlay: a write never damages a longer text in the file.
OverlayKeepsLonger(new, old) == IF new.len >= old.len THEN new ELSE old

\* Writing new at offset 0 of a file holding old: bytes of old beyond the
\* end of new stay where they are.
Overlay(new, old) ==
    IF new.len >= old.len THEN new
    ELSE IF new.len = 0 THEN old
    ELSE Garbage(old.len)

-----------------------------------------------------------------------------
\* The extractor

Str(w) == JStr(<<w>>)

ProjectionYear ==
    JObj(<<Pair("annuity", JNull), Pair("tspWithdrawal", JNull),
           Pair("expenses", JNull), Pair("surplus", JNull)>>)

ExpectedValues ==
    JObj(<<
      Pair("careerProfile", JObj(<<
          Pair("hireDate", JNull), Pair("retirementDate", JNull),
          Pair("birthDate", JNull)>>)),
      Pair("annuityCalculation", JObj(<<
          Pair("high3Salary", JNull), Pair("creditableServiceYears", JNull),
          Pair("multiplier", JNull), Pair("grossAnnuity", JNull),
          Pair("reductionFactor", JNull), Pair("netAnnuity", JNull)>>)),
      Pair("tspProjection", JObj(<<
          Pair("currentBalance", JNull), Pair("projectedBalanceAtRetirement", JNull),
          Pair("monthlyContribution", JNull), Pair("assumedGrowthRate", JNull)>>)),
      Pair("fersSupplement", JObj(<<
          Pair("eligible", JNull), Pair("monthlyAmount", JNull),
          Pair("annualAmount", JNull)>>)),
      Pair("projectionYears", JObj(<<
          Pair("year1", ProjectionYear), Pair("year10", ProjectionYear),
          Pair("year20", ProjectionYear), Pair("year30", ProjectionYear)>>))
    >>)

Notes ==
    JList(<<
      Elem(JStr(<<"TODO:", "Identify", "which", "sheet", "contains", "the", "GS",
                  "scenario", "data">>)),
      Elem(JStr(<<"TODO:", "Map", "cell", "references", "for", "each", "value",
                  "above">>)),
      Elem(JStr(<<"TODO:", "Extract", "values", "and", "populate",
                  "expectedValues">>)),
      Elem(JStr(<<"Tolerances:", "currency", "+-$1.00,", "percentages",
                  "+-0.001%">>))
    >>)

\* The mutant of extract_gs_straight_through: the record is marked complete
\* when the workbook has the sheet the values are expected on.
extract_reads_workbook(w) ==
    JObj(<<
      Pair("status", Str(IF \E i \in 1..Len(w) : w[i] = "Examples"
                         THEN "complete" ELSE "pending")),
      Pair("description", JStr(<<"Full", "GS", "career,", "standard", "FERS",
                                 "retirement", "at", "age", "57", "with", "30",
                                 "years", "service">>)),
      Pair("expectedValues", ExpectedValues),
      Pair("notes", Notes)
    >>)

\* extract_gs_straight_through(wb); w is wb.sheetnames
extract_gs_straight_through(w) ==
    JObj(<<
      Pair("status", Str("pending")),
      Pair("description", JStr(<<"Full", "GS", "career,", "standard", "FERS",
                                 "retirement", "at", "age", "57", "with", "30",
                                 "years", "service">>)),
      Pair("expectedValues", ExpectedValues),
      Pair("notes", Notes)
    >>)

\* The names the dispatch of main recognizes.
Registered == {"gs-straight-through"}

-----------------------------------------------------------------------------
\* The document main starts from when the output file does not exist

DefaultExtractionNotes ==
    JObj(<<
      Pair("method", JStr(<<"Python", "script", "(see",
                            "scripts/extract-baseline.py)">>)),
      Pair("tolerances", JObj(<<
          Pair("currency_annual", Str("+-$1.00")),
          Pair("currency_monthly", Str("+-$0.10")),
          Pair("percentages", Str("+-0.001%")),
          Pair("dates", Str("exact"))>>))
    >>)

\* The mutant of DefaultBaseline: the skeleton starts at schema version 2.
DefaultBaselineV2 ==
    JObj(<<Pair("schemaVersion", JNum(2)),
           Pair("extractionNotes", DefaultExtractionNotes),
           Pair("scenarios", JObj(<<>>))>>)

DefaultBaseline ==
    JObj(<<Pair("schemaVersion", JNum(1)),
           Pair("extractionNotes", DefaultExtractionNotes),
           Pair("scenarios", JObj(<<>>))>>)

-----------------------------------------------------------------------------
\* The environment of a run: the spreadsheets and output paths on disk

Spreadsheets == {"missing.xlsx", "corrupt.xlsx", "Retire-original.xlsx", "other.xlsx"}

\* Path(args.spreadsheet).exists()
SpreadsheetExists(path) == path # "missing.xlsx"

\* openpyxl.load_workbook(path) returns a workbook
Loads(path) == path \in {"Retire-original.xlsx", "other.xlsx"}

\* wb.sheetnames of the workbook at path
SheetNames(path) ==
    IF path = "Retire-original.xlsx" THEN <<"Basic Calculator", "Examples">>
    ELSE <<"Sheet1">>

Outputs == {"baseline.json", "locked.json"}

\* open(path, 'w') succeeds
Writable(path) == path = "baseline.json"

ScenarioNames == {"gs-straight-through", "leo", "military-buyback"}

\* The values --scenario takes in the model: the registered name and another.
ScenarioArgs == {"gs-straight-through", "leo"}

Args == [scenario : ScenarioArgs, output : Outputs, spreadsheet : Spreadsheets]

NoArgs == [scenario |-> "", output |-> "", spreadsheet |-> ""]

\* A scenario record some earlier extraction left in the file.
OldRecord(k) == JObj(<<Pair("status", Str("complete")), Pair("description", Str(k))>>)

\* The scenario mappings a file may hold at the start: up to MaxSiblings
\* entries, in any order of their keys.
ScenarioMaps ==
    {JObj([i \in 1..n |-> Pair(ks[i], OldRecord(ks[i]))]) :
        <<n, ks>> \in {<<m, f>> \in UNION {{m} \X [1..m -> ScenarioNames] : m \in 0..MaxSiblings} :
                          \A i, j \in 1..m : i # j => f[i] # f[j]}}

CustomNotes == JObj(<<Pair("method", Str("manual"))>>)

\* Well-formed baseline documents other than the default one.
GoodDocs ==
    {JObj(<<Pair("schemaVersion", JNum(2)), Pair("extractionNotes", CustomNotes),
            Pair("scenarios", m)>>) : m \in ScenarioMaps}
    \cup {JObj(<<Pair("scenarios", m), Pair("schemaVersion", JNum(1))>>) : m \in ScenarioMaps}

\* JSON documents on which the merge of main raises.
BadDocs ==
    { JList(<<>>),
      JObj(<<Pair("schemaVersion", JNum(2))>>),
      JObj(<<Pair("schemaVersion", JNum(1)), Pair("scenarios", JList(<<>>))>>) }

InitFiles ==
    {Absent, Empty, Garbage(1)}
    \cup {Text(fmt, d) : fmt \in {"compact", "indent2"}, d \in GoodDocs}
    \cup {Text("compact", d) : d \in BadDocs}

LockedFiles ==
    {Absent, Text("indent2", JObj(<<Pair("scenarios", JObj(<<Pair("leo", OldRecord("leo"))>>))>>))}

-----------------------------------------------------------------------------
\* Standard output and standard error: one record per line printed

Msg(text, arg) == [text |-> text, arg |-> arg, val |-> JNull]

\* print(json.dumps(extracted, indent=2))
JsonMsg(v) == [text |-> "json", arg |-> "", val |-> v]

SheetLines(w) == [i \in 1..Len(w) |-> Msg("  - ", w[i])]

NoRun == [args |-> NoArgs, exit |-> -1, fs |-> [o \in Outputs |-> Absent]]

InitCommon ==
    /\ pc = [p \in Procs |-> "idle"]
    /\ args = [p \in Procs |-> NoArgs]
    /\ wb = [p \in Procs |-> <<>>]
    /\ extracted = [p \in Procs |-> JNull]
    /\ baseline = [p \in Procs |-> JNull]
    /\ out = [p \in Procs |-> <<>>]
    /\ err = [p \in Procs |-> <<>>]
    /\ exit = [p \in Procs |-> -1]
    /\ fsAtStart = [p \in Procs |-> fs]
    /\ prev = [p \in Procs |-> NoRun]
    /\ edited = {}

Init ==
    /\ fs \in {[o \in Outputs |-> IF o = "baseline.json" THEN f ELSE g] :
                  f \in InitFiles, g \in LockedFiles}
    /\ InitCommon

\* The process exits with status code after printing lines to standard
\* output and trace to standard error.
Exit(p, code, lines, trace) ==
    /\ pc' = [pc EXCEPT ![p] = "exited"]
    /\ exit' = [exit EXCEPT ![p] = code]
    /\ out' = [out EXCEPT ![p] = @ \o lines]
    /\ err' = [err EXCEPT ![p] = @ \o trace]

\* An uncaught exception: the traceback goes to standard error, status 1.
Raise(p, exc) == Exit(p, 1, <<>>, <<Msg("Traceback", exc)>>)

Goto(p, label, lines) ==
    /\ pc' = [pc EXCEPT ![p] = label]
    /\ out' = [out EXCEPT ![p] = @ \o lines]
    /\ UNCHANGED <<err, exit>>

\* A run begins: argparse has the arguments.
Start(p, a) ==
    /\ pc[p] \in {"idle", "exited"}
    /\ pc' = [pc EXCEPT ![p] = "check_spreadsheet"]
    /\ args' = [args EXCEPT ![p] = a]
    /\ wb' = [wb EXCEPT ![p] = <<>>]
    /\ extracted' = [extracted EXCEPT ![p] = JNull]
    /\ baseline' = [baseline EXCEPT ![p] = JNull]
    /\ out' = [out EXCEPT ![p] = <<>>]
    /\ err' = [err EXCEPT ![p] = <<>>]
    /\ exit' = [exit EXCEPT ![p] = -1]
    /\ fsAtStart' = [fsAtStart EXCEPT ![p] = fs]
    /\ prev' = [prev EXCEPT ![p] = [args |-> args[p], exit |-> exit[p], fs |-> fs]]
    /\ UNCHANGED <<fs, edited>>

\* The mutant of CheckSpreadsheet: the error path returns instead of exiting
\* with status 1.
CheckSpreadsheetReturns(p) ==
    /\ pc[p] = "check_spreadsheet"
    /\ IF SpreadsheetExists(args[p].spreadsheet)
       THEN Goto(p, "load_workbook", <<>>)
       ELSE Exit(p, 0, <<Msg("Error: not found", args[p].spreadsheet)>>, <<>>)
    /\ UNCHANGED <<fs, args, wb, extracted, baseline, fsAtStart, prev, edited>>

CheckSpreadsheet(p) ==
    /\ pc[p] = "check_spreadsheet"
    /\ IF SpreadsheetExists(args[p].spreadsheet)
       THEN Goto(p, "load_workbook", <<>>)
       ELSE Exit(p, 1, <<Msg("Error: not found", args[p].spreadsheet)>>, <<>>)
    /\ UNCHANGED <<fs, args, wb, extracted, baseline, fsAtStart, prev, edited>>

\* The mutant of LoadWorkbook: the load error is not caught.
LoadWorkbookUncaught(p) ==
    /\ pc[p] = "load_workbook"
    /\ IF Loads(args[p].spreadsheet)
       THEN /\ wb' = [wb EXCEPT ![p] = SheetNames(args[p].spreadsheet)]
            /\ Goto(p, "dispatch",
                    <<Msg("Loading", args[p].spreadsheet), Msg("Available sheets:", "")>>
                    \o SheetLines(SheetNames(args[p].spreadsheet)))
       ELSE /\ UNCHANGED wb
            /\ Exit(p, 1, <<Msg("Loading", args[p].spreadsheet)>>,
                    <<Msg("Traceback", "InvalidFileException")>>)
    /\ UNCHANGED <<fs, args, extracted, baseline, fsAtStart, prev, edited>>

LoadWorkbook(p) ==
    /\ pc[p] = "load_workbook"
    /\ IF Loads(args[p].spreadsheet)
       THEN /\ wb' = [wb EXCEPT ![p] = SheetNames(args[p].spreadsheet)]
            /\ Goto(p, "dispatch",
                    <<Msg("Loading", args[p].spreadsheet), Msg("Available sheets:", "")>>
                    \o SheetLines(SheetNames(args[p].spreadsheet)))
       ELSE /\ UNCHANGED wb
            /\ Exit(p, 1, <<Msg("Loading", args[p].spreadsheet),
                            Msg("Error loading workbook", args[p].spreadsheet)>>, <<>>)
    /\ UNCHANGED <<fs, args, extracted, baseline, fsAtStart, prev, edited>>

\* The mutant of Dispatch: an unknown name falls back to the one extractor.
DispatchFallsBack(p) ==
    /\ pc[p] = "dispatch"
    /\ extracted' = [extracted EXCEPT ![p] = extract_gs_straight_through(wb[p])]
    /\ Goto(p, "check_output", <<>>)
    /\ UNCHANGED <<fs, args, wb, baseline, fsAtStart, prev, edited>>

Dispatch(p) ==
    /\ pc[p] = "dispatch"
    /\ IF args[p].scenario = "gs-straight-through"
       THEN /\ extracted' = [extracted EXCEPT ![p] = extract_gs_straight_through(wb[p])]
            /\ Goto(p, "check_output", <<>>)
       ELSE /\ UNCHANGED extracted
            /\ Exit(p, 1, <<Msg("Error: Unknown scenario", args[p].scenario)>>, <<>>)
    /\ UNCHANGED <<fs, args, wb, baseline, fsAtStart, prev, edited>>

CheckOutput(p) ==
    /\ pc[p] = "check_output"
    /\ IF Exists(fs[args[p].output])
       THEN /\ UNCHANGED baseline
            /\ Goto(p, "read_baseline", <<>>)
       ELSE /\ baseline' = [baseline EXCEPT ![p] = DefaultBaseline]
            /\ Goto(p, "merge", <<>>)
    /\ UNCHANGED <<fs, args, wb, extracted, fsAtStart, prev, edited>>

ReadBaseline(p) ==
    /\ pc[p] = "read_baseline"
    /\ IF Parses(fs[args[p].output])
       THEN /\ baseline' = [baseline EXCEPT ![p] = fs[args[p].output].doc]
            /\ Goto(p, "merge", <<>>)
       ELSE /\ UNCHANGED baseline
            /\ Raise(p, "JSONDecodeError")
    /\ UNCHANGED <<fs, args, wb, extracted, fsAtStart, prev, edited>>

\* The mutant of Merged: the scenarios mapping is rebuilt from the new record.
MergedFresh(doc, name, rec) ==
    SetItem(doc, "scenarios", JObj(<<Pair(name, rec)>>))

\* The mutant of Merged: the record is added without looking for its key.
MergedAppend(doc, name, rec) ==
    SetItem(doc, "scenarios",
            [GetItem(doc, "scenarios") EXCEPT !.items = Append(@, Pair(name, rec))])

\* The mutant of Merged: the document is brought to the current schema version.
MergedResetsVersion(doc, name, rec) ==
    SetItem(SetItem(doc, "scenarios", SetItem(GetItem(doc, "scenarios"), name, rec)),
            "schemaVersion", JNum(1))

\* baseline["scenarios"][name] = rec
Merged(doc, name, rec) ==
    SetItem(doc, "scenarios", SetItem(GetItem(doc, "scenarios"), name, rec))

Merge(p) ==
    /\ pc[p] = "merge"
    /\ IF baseline[p].t # "obj"
       THEN UNCHANGED baseline /\ Raise(p, "TypeError")
       ELSE IF ~HasKey(baseline[p], "scenarios")
       THEN UNCHANGED baseline /\ Raise(p, "KeyError")
       ELSE IF GetItem(baseline[p], "scenarios").t # "obj"
       THEN UNCHANGED baseline /\ Raise(p, "TypeError")
       ELSE /\ baseline' = [baseline EXCEPT
                               ![p] = Merged(baseline[p], args[p].scenario, extracted[p])]
            /\ Goto(p, "open_write", <<>>)
    /\ UNCHANGED <<fs, args, wb, extracted, fsAtStart, prev, edited>>

\* open(output_path, 'w'): the file is created or cut to no bytes.
OpenWrite(p) ==
    /\ pc[p] = "open_write"
    /\ IF Writable(args[p].output)
       THEN /\ fs' = [fs EXCEPT ![args[p].output] = Empty]
            /\ Goto(p, "dump", <<>>)
       ELSE /\ UNCHANGED fs
            /\ Raise(p, "OSError")
    /\ UNCHANGED <<args, wb, extracted, baseline, fsAtStart, prev, edited>>

\* The bytes of text that reached the file when the write stopped at n.
Partial(n) == [fmt |-> IF n = 0 THEN "empty" ELSE "partial", doc |-> JNull, len |-> n]

\* json.dump(baseline, f, indent=2) and the close of f: all of the text is
\* written, or the write fails (no space, a size limit) leaving nothing or
\* all but the end of it.
Dump(p) ==
    /\ pc[p] = "dump"
    /\ LET text == Dumped(baseline[p])
           old == fs[args[p].output]
       IN \/ /\ fs' = [fs EXCEPT ![args[p].output] = Overlay(text, old)]
             /\ Goto(p, "echo", <<>>)
          \/ /\ \E n \in {0, text.len - 1} :
                   fs' = [fs EXCEPT ![args[p].output] = Overlay(Partial(n), old)]
             /\ Raise(p, "OSError")
    /\ UNCHANGED <<args, wb, extracted, baseline, fsAtStart, prev, edited>>

Echo(p) ==
    /\ pc[p] = "echo"
    /\ Exit(p, 0, <<Msg("Updated", args[p].output), JsonMsg(extracted[p])>>, <<>>)
    /\ UNCHANGED <<fs, args, wb, extracted, baseline, fsAtStart, prev, edited>>

Step(p) ==
    \/ CheckSpreadsheet(p)
    \/ LoadWorkbook(p)
    \/ Dispatch(p)
    \/ CheckOutput(p)
    \/ ReadBaseline(p)
    \/ Merge(p)
    \/ OpenWrite(p)
    \/ Dump(p)
    \/ Echo(p)

\* One invocation at a time, run after run.
Next ==
    \/ \E a \in Args : Start(1, a)
    \/ Step(1)

Spec == Init /\ [][Next]_vars

-----------------------------------------------------------------------------
\* Two invocations at the same time on the same output path

ConcFiles ==
    { Absent,
      Text("indent2", JObj(<<Pair("scenarios", JObj(<<>>)), Pair("schemaVersion", JNum(1))>>)),
      Text("compact", JObj(<<Pair("schemaVersion", JNum(2)),
                             Pair("extractionNotes", CustomNotes),
                             Pair("scenarios", JObj(<<Pair("leo", OldRecord("leo"))>>))>>)) }

ConcInit ==
    /\ fs \in {[o \in Outputs |-> IF o = "baseline.json" THEN f ELSE Absent] : f \in ConcFiles}
    /\ InitCommon

\* Another program (an editor, another extraction tool) adds the scenario
\* entry k to the baseline file between the steps of the invocations, at a
\* moment when no invocation holds the file open for writing.
ExternalEdit(k) ==
    /\ Cardinality(edited) < MaxEdits
    /\ \A p \in Procs : pc[p] # "dump"
    /\ k \notin Registered
    /\ LET f == fs["baseline.json"]
       IN /\ Parses(f)
          /\ HasKey(f.doc, "scenarios")
          /\ GetItem(f.doc, "scenarios").t = "obj"
          /\ k \notin Keys(GetItem(f.doc, "scenarios"))
          /\ fs' = [fs EXCEPT !["baseline.json"] =
                       Overlay(Text(f.fmt, Merged(f.doc, k, OldRecord(k))), f)]
    /\ edited' = edited \cup {k}
    /\ UNCHANGED <<pc, args, wb, extracted, baseline, out, err, exit, fsAtStart, prev>>

ConcNext ==
    \/ \E p \in Procs : \E a \in Args : pc[p] = "idle" /\ Start(p, a)
    \/ \E p \in Procs : Step(p)
    \/ \E k \in ScenarioNames : ExternalEdit(k)

ConcSpec == ConcInit /\ [][ConcNext]_vars

-----------------------------------------------------------------------------
\* Properties

Done(p) == pc[p] = "exited"

Succeeded(p) == Done(p) /\ exit[p] = 0

Failed(p) == Done(p) /\ exit[p] # 0

\* The output file of the run of p, now and when the run began.
OutNow(p) == fs[args[p].output]

OutBefore(p) == fsAtStart[p][args[p].output]

Scenarios(f) == GetItem(f.doc, "scenarios")

\* C1: after a successful run against an existing output file, every scenario
\* entry whose key is not the --scenario name is in the written file with the
\* value it had before the run, and no key was removed.
C1_SiblingsKept ==
    (Succeeded(1) /\ Exists(OutBefore(1))) =>
        /\ Parses(OutNow(1))
        /\ HasKey(OutNow(1).doc, "scenarios")
        /\ Keys(Scenarios(OutNow(1))) = Keys(Scenarios(OutBefore(1))) \cup {args[1].scenario}
        /\ \A k \in Keys(Scenarios(OutBefore(1))) \ {args[1].scenario} :
              GetItem(Scenarios(OutNow(1)), k) = GetItem(Scenarios(OutBefore(1)), k)

\* A successful run over a file that held a stale record of the scenario and
\* a sibling.
C1_Witness ==
    /\ Succeeded(1)
    /\ Parses(OutBefore(1))
    /\ Keys(Scenarios(OutBefore(1))) = {"gs-straight-through", "leo"}
    /\ GetItem(Scenarios(OutBefore(1)), "gs-straight-through") # extracted[1]
    /\ GetItem(Scenarios(OutNow(1)), "gs-straight-through") = extracted[1]

\* C2: when the --spreadsheet path does not exist the run exits with a
\* non-zero status and no output file is created or modified, whatever the
\* other arguments.
C2_MissingSpreadsheet ==
    (Done(1) /\ ~SpreadsheetExists(args[1].spreadsheet)) =>
        /\ exit[1] # 0
        /\ fs = fsAtStart[1]

C2_Witness ==
    /\ Done(1)
    /\ ~SpreadsheetExists(args[1].spreadsheet)
    /\ args[1].scenario = "leo"
    /\ args[1].output = "baseline.json"
    /\ ~Exists(fs["baseline.json"])

\* C3: when the --scenario name is not registered the run exits with a
\* non-zero status and no output file is created or modified, also when the
\* workbook loaded.
C3_UnknownScenario ==
    (Done(1) /\ args[1].scenario \notin Registered) =>
        /\ exit[1] # 0
        /\ fs = fsAtStart[1]

C3_Witness ==
    /\ Done(1)
    /\ args[1].scenario \notin Registered
    /\ wb[1] = <<"Basic Calculator", "Examples">>
    /\ Parses(OutBefore(1))

\* C4: a run that does not end successfully leaves the output file as it was
\* when the run began.
C4_FailedRunLeavesFile ==
    Failed(1) => fs = fsAtStart[1]

\* C5: two successive successful runs with the same arguments leave the file
\* after the second run identical to the file after the first.
C5_Idempotent ==
    (Succeeded(1) /\ prev[1].exit = 0 /\ prev[1].args = args[1]) =>
        fs = prev[1].fs

\* The second of two such runs has ended, and it rewrote the file.
C5_Witness ==
    /\ Succeeded(1)
    /\ prev[1].exit = 0
    /\ prev[1].args = args[1]
    /\ OutNow(1).fmt = "indent2"
    /\ Cardinality(Keys(Scenarios(OutNow(1)))) >= 2

\* C6: a successful run against an output path that does not exist creates
\* a document with schemaVersion 1, the fixed tolerance block and a scenarios
\* mapping whose only key is the --scenario name, mapped to the extractor's
\* result.
C6_DefaultSkeleton ==
    (Succeeded(1) /\ ~Exists(OutBefore(1))) =>
        /\ Parses(OutNow(1))
        /\ Keys(OutNow(1).doc) = {"schemaVersion", "extractionNotes", "scenarios"}
        /\ GetItem(OutNow(1).doc, "schemaVersion") = JNum(1)
        /\ HasKey(GetItem(OutNow(1).doc, "extractionNotes"), "tolerances")
        /\ GetItem(GetItem(OutNow(1).doc, "extractionNotes"), "tolerances") =
              JObj(<<Pair("currency_annual", JStr(<<"+-$1.00">>)),
                     Pair("currency_monthly", JStr(<<"+-$0.10">>)),
                     Pair("percentages", JStr(<<"+-0.001%">>)),
                     Pair("dates", JStr(<<"exact">>))>>)
        /\ Keys(Scenarios(OutNow(1))) = {args[1].scenario}
        /\ GetItem(Scenarios(OutNow(1)), args[1].scenario) = extracted[1]

C6_Witness ==
    /\ Succeeded(1)
    /\ ~Exists(OutBefore(1))
    /\ Exists(OutNow(1))

\* The fatal condition the arguments of the run of p lead to, "" for none.
Fatal(p) ==
    IF ~SpreadsheetExists(args[p].spreadsheet) THEN "Error: not found"
    ELSE IF ~Loads(args[p].spreadsheet) THEN "Error loading workbook"
    ELSE IF args[p].scenario \notin Registered THEN "Error: Unknown scenario"
    ELSE ""

Texts(lines) == {lines[i].text : i \in 1..Len(lines)}

\* C7 as claimed: each of the three fatal conditions is reported by a
\* diagnostic on the error stream, not on standard output, and the process
\* ends with a non-zero status.
C7_DiagnosticOnStderr ==
    (Done(1) /\ Fatal(1) # "") =>
        /\ exit[1] # 0
        /\ Fatal(1) \in Texts(err[1])
        /\ Fatal(1) \notin Texts(out[1])

\* C7 as amended: each of the three fatal conditions is reported by one
\* diagnostic line, the last line of standard output; nothing goes to the
\* error stream, the status is 1 and no later step of the run has acted.
C7_DiagnosticOnStdout ==
    (Done(1) /\ Fatal(1) # "") =>
        /\ exit[1] = 1
        /\ err[1] = <<>>
        /\ out[1] # <<>>
        /\ out[1][Len(out[1])].text = Fatal(1)
        /\ Cardinality({i \in 1..Len(out[1]) : out[1][i].text = Fatal(1)}) = 1
        /\ "Updated" \notin Texts(out[1])
        /\ extracted[1] = JNull
        /\ baseline[1] = JNull
        /\ fs = fsAtStart[1]

\* A run on a workbook that does not load has ended.
C7_Witness ==
    /\ Done(1)
    /\ Fatal(1) = "Error loading workbook"
    /\ Len(out[1]) = 2

\* The notes that are TODO strings.
Todos(notes) ==
    {i \in 1..Len(notes.items) :
        /\ notes.items[i].val.t = "str"
        /\ Len(notes.items[i].val.s) > 0
        /\ notes.items[i].val.s[1] = "TODO:"}

\* The extractor has returned in the run of p.
Extracted(p) == extracted[p] # JNull

\* C8 as claimed: the record the extractor returns has status "pending",
\* null at every leaf of expectedValues and at least four TODO strings in
\* its notes.
C8_FourTodos ==
    Extracted(1) =>
        /\ GetItem(extracted[1], "status") = JStr(<<"pending">>)
        /\ AllLeavesNull(GetItem(extracted[1], "expectedValues"))
        /\ Cardinality(Todos(GetItem(extracted[1], "notes"))) >= 4

\* C8 as amended: the record has status "pending", null at every leaf of
\* expectedValues and four notes, three of them TODO strings and the fourth
\* the tolerances; it is the same record for every workbook that loads.
C8_StubRecord ==
    Extracted(1) =>
        /\ GetItem(extracted[1], "status") = JStr(<<"pending">>)
        /\ GetItem(extracted[1], "expectedValues").t = "obj"
        /\ Len(GetItem(extracted[1], "expectedValues").items) = 5
        /\ AllLeavesNull(GetItem(extracted[1], "expectedValues"))
        /\ Len(GetItem(extracted[1], "notes").items) = 4
        /\ Todos(GetItem(extracted[1], "notes")) = {1, 2, 3}
        /\ GetItem(extracted[1], "notes").items[4].val.s[1] = "Tolerances:"
        /\ \A path \in Spreadsheets :
              Loads(path) => extract_gs_straight_through(SheetNames(path)) = extracted[1]

\* The extractor has returned for the workbook that has no Examples sheet.
C8_Witness ==
    /\ Extracted(1)
    /\ wb[1] = <<"Sheet1">>

\* The write of p completes in this step.
Wrote(p) == pc[p] = "dump" /\ pc'[p] = "echo"

C10_TopLevelKept ==
    Succeeded(1) =>
        /\ Exists(OutBefore(1)) =>
              /\ Keys(OutNow(1).doc) = Keys(OutBefore(1).doc)
              /\ \A k \in Keys(OutBefore(1).doc) \ {"scenarios"} :
                    GetItem(OutNow(1).doc, k) = GetItem(OutBefore(1).doc, k)
        /\ (HasKey(OutNow(1).doc, "schemaVersion")
              /\ GetItem(OutNow(1).doc, "schemaVersion") = JNum(1)) =>
              \/ ~Exists(OutBefore(1))
              \/ /\ HasKey(OutBefore(1).doc, "schemaVersion")
                 /\ GetItem(OutBefore(1).doc, "schemaVersion") = JNum(1)

\* A successful run over a file of schema version 2 with notes of its own.
C10_Witness ==
    /\ Succeeded(1)
    /\ Parses(OutBefore(1))
    /\ GetItem(OutNow(1).doc, "schemaVersion") = JNum(2)
    /\ GetItem(OutNow(1).doc, "extractionNotes") = CustomNotes
    /\ OutBefore(1) # OutNow(1)

====
